---- MODULE Spec2Model ----
(***************************************************************************)
(* State machine of the notes application in                               *)
(* src/notes_frontend/src/main.jsx: the App component's state, the durable *)
(* localStorage slot "notes", and one action per event handler.            *)
(*                                                                         *)
(* Strings are sequences of one-character strings, so that toLowerCase,    *)
(* includes and trim are computed character by character.  Ids stand for   *)
(* the UUID strings of crypto.randomUUID(); NullId stands for null.        *)
(***************************************************************************)
EXTENDS Integers, Sequences, FiniteSets, TLC

VARIABLES
    phase,          \* "boot" before <App /> is rendered, "running", "crashed"
    localStorage,   \* the value of the localStorage key "notes"
    notes,          \* useState: the note collection
    searchQuery,    \* useState
    selectedId,     \* useState
    isEditing,      \* useState
    editBuffer,     \* useState: {title, content}
    now,            \* the clock read by Date.now()
    nextId,         \* the next value crypto.randomUUID() hands out
    lastOp,         \* the operation that wrote the collection last
    error,          \* the exception the last handler raised, or "none"
    otherTab        \* a second tab of the same browser: open or not, its notes

vars == <<phase, localStorage, notes, searchQuery, selectedId, isEditing,
          editBuffer, now, nextId, lastOp, error, otherTab>>

----------------------------------------------------------------------------
(* Bounds *)

\* crypto.randomUUID() hands out the ids up to MaxId, then no note is created
MaxId == 2
\* the clock stops at MaxClock
MaxClock == 2

----------------------------------------------------------------------------
(* Strings *)

Placeholder == <<"U","n","t","i","t","l","e","d"," ","N","o","t","e">>

WhiteSpace == {" ", "\t", "\n"}

LowerChar(c) ==
    CASE c = "A" -> "a"
      [] c = "B" -> "b"
      [] c = "E" -> "e"
      [] c = "N" -> "n"
      [] c = "O" -> "o"
      [] c = "T" -> "t"
      [] c = "U" -> "u"
      [] OTHER -> c

toLowerCase(s) == [i \in 1..Len(s) |-> LowerChar(s[i])]

includes(s, q) ==
    \E i \in 0..(Len(s) - Len(q)) : SubSeq(s, i + 1, i + Len(q)) = q

SetMin(S) == CHOOSE x \in S : \A y \in S : x <= y
SetMax(S) == CHOOSE x \in S : \A y \in S : x >= y

trim(s) ==
    LET keep == {i \in 1..Len(s) : s[i] \notin WhiteSpace}
    IN  IF keep = {} THEN <<>> ELSE SubSeq(s, SetMin(keep), SetMax(keep))

----------------------------------------------------------------------------
(* Notes and the durable slot *)

NullId == 0

Note(id, title, content, created, updated) ==
    [id |-> id, title |-> title, content |-> content,
     created |-> created, updated |-> updated]

\* JSON.stringify(notes): the text of an array of objects, one per note.
JSONstringify(ns) ==
    [kind |-> "array",
     items |-> [i \in 1..Len(ns) |->
                  <<ns[i].id, ns[i].title, ns[i].content,
                    ns[i].created, ns[i].updated>>]]

\* JSON.parse(text) for a text that parses.
JSONparse(text) ==
    [i \in 1..Len(text.items) |->
        Note(text.items[i][1], text.items[i][2], text.items[i][3],
             text.items[i][4], text.items[i][5])]

\* getItem returns null for an absent key; null and "" are falsy.
NullItem == [kind |-> "null", items |-> <<>>]
EmptyText == [kind |-> "empty", items |-> <<>>]
CorruptText == [kind |-> "corrupt", items |-> <<>>]

Truthy(stored) == stored.kind \notin {"null", "empty"}
Parses(text) == text.kind = "array"

\* Collections an earlier session may have left in the slot; their
\* timestamps lie before the time of this session.
StoredCollections ==
    { <<>>,
      <<Note(3, Placeholder, <<" ", "b">>, 0, 0),
        Note(1, <<"A">>, <<>>, 0, 0),
        Note(2, <<"A">>, <<" ", "b">>, 0, 0)>> }

InitialSlots ==
    {NullItem, EmptyText, CorruptText}
        \cup {JSONstringify(ns) : ns \in StoredCollections}

MaxStoredId(stored) ==
    IF Parses(stored) /\ Len(stored.items) > 0
    THEN SetMax({stored.items[i][1] : i \in 1..Len(stored.items)})
    ELSE 0

----------------------------------------------------------------------------
(* Inputs *)

TitleInputs == {<<>>, <<" ">>, <<"A">>}
ContentInputs == {<<>>, <<" ", "b">>}
Queries == {<<>>, <<"n", "O">>}

----------------------------------------------------------------------------
(* Derived values of a render *)

Ids(ns) == {ns[i].id : i \in 1..Len(ns)}

\* the ids a handler may be called with: those of the stored notes and
\* those crypto.randomUUID() hands out
AllIds == (1..MaxId) \cup UNION {Ids(ns) : ns \in StoredCollections}

\* Array.prototype.findIndex, 1-based; 0 stands for -1.
findIndex(ns, id) ==
    IF id \in Ids(ns)
    THEN SetMin({i \in 1..Len(ns) : ns[i].id = id})
    ELSE 0

\* Matches comparing with the query as typed
MatchesQueryAsTyped(n, q) ==
    \/ includes(toLowerCase(n.title), q)
    \/ includes(toLowerCase(n.content), q)

Matches(n, q) ==
    \/ includes(toLowerCase(n.title), toLowerCase(q))
    \/ includes(toLowerCase(n.content), toLowerCase(q))

filter(ns, q) == SelectSeq(ns, LAMBDA n : Matches(n, q))

\* the comparator of an ascending sort
compareAscending(a, b) == a.updated - b.updated

\* comparator (a, b) => b.updated - a.updated
compare(a, b) == b.updated - a.updated

\* insert putting x before the elements it compares equal to
RECURSIVE insertBeforeEqual(_, _)
insertBeforeEqual(sorted, x) ==
    IF sorted = <<>> THEN <<x>>
    ELSE IF compare(sorted[1], x) < 0
         THEN <<sorted[1]>> \o insertBeforeEqual(Tail(sorted), x)
         ELSE <<x>> \o sorted

\* insert x after every element it does not sort strictly before
RECURSIVE insert(_, _)
insert(sorted, x) ==
    IF sorted = <<>> THEN <<x>>
    ELSE IF compare(sorted[1], x) <= 0
         THEN <<sorted[1]>> \o insert(Tail(sorted), x)
         ELSE <<x>> \o sorted

\* Array.prototype.sort with the comparator: a stable sort
RECURSIVE sort(_)
sort(ns) ==
    IF ns = <<>> THEN <<>>
    ELSE insert(sort(SubSeq(ns, 1, Len(ns) - 1)), ns[Len(ns)])

list(q) == sort(filter(notes, q))

filteredNotes == list(searchQuery)

HasSelectedNote == findIndex(notes, selectedId) # 0
selectedNote == notes[findIndex(notes, selectedId)]

----------------------------------------------------------------------------
(* Initial state: the page is loaded, <App /> is not rendered yet *)

Init ==
    /\ phase = "boot"
    /\ localStorage \in InitialSlots
    /\ notes = <<>>
    /\ searchQuery = <<>>
    /\ selectedId = NullId
    /\ isEditing = FALSE
    /\ editBuffer = [title |-> <<>>, content |-> <<>>]
    /\ now = 1
    /\ nextId = MaxStoredId(localStorage) + 1
    /\ lastOp = "load"
    /\ error = "none"
    /\ otherTab = [open |-> FALSE, notes |-> <<>>]

\* First render of <App />: the useState initialiser reads the slot, then
\* the persisting effect runs once after the mount.
Mount ==
    /\ phase = "boot"
    /\ lastOp' = "mount"
    /\ IF Truthy(localStorage) /\ ~Parses(localStorage)
       THEN /\ phase' = "crashed"
            /\ error' = "SyntaxError"
            /\ UNCHANGED <<localStorage, notes>>
       ELSE /\ phase' = "running"
            /\ error' = "none"
            /\ notes' = (IF Truthy(localStorage)
                         THEN JSONparse(localStorage) ELSE <<>>)
            /\ localStorage' = JSONstringify(notes')
    /\ UNCHANGED otherTab
    /\ UNCHANGED <<searchQuery, selectedId, isEditing, editBuffer, now, nextId>>

----------------------------------------------------------------------------
(* The persisting effect: runs after every render in which `notes` is a new *)
(* array, and overwrites the slot with the whole collection.                *)

persist(ns) == JSONstringify(ns)

----------------------------------------------------------------------------
(* Event handlers *)

\* the new note without its updated stamp
newNoteUnstamped == Note(nextId, Placeholder, <<>>, now, 0)

\* the new note with the time of its creation for an id
newNoteIdByClock == Note(now, Placeholder, <<>>, now, now)

newNote == Note(nextId, Placeholder, <<>>, now, now)

\* the new note put at the end
withNewNoteAppended(n, ns) == ns \o <<n>>

\* [newNote, ...notes]
withNewNote(n, ns) == <<n>> \o ns

\* handleCreateNote leaving the draft of the form in the buffer
handleCreateNoteKeepsBuffer ==
    /\ phase = "running"
    /\ nextId <= MaxId
    /\ notes' = withNewNote(newNote, notes)
    /\ selectedId' = newNote.id
    /\ isEditing' = TRUE
    /\ localStorage' = persist(notes')
    /\ nextId' = nextId + 1
    /\ lastOp' = "create"
    /\ error' = "none"
    /\ UNCHANGED otherTab
    /\ UNCHANGED <<phase, searchQuery, now, editBuffer>>

handleCreateNote ==
    /\ phase = "running"
    /\ nextId <= MaxId
    /\ notes' = withNewNote(newNote, notes)
    /\ selectedId' = newNote.id
    /\ isEditing' = TRUE
    /\ editBuffer' = [title |-> Placeholder, content |-> <<>>]
    /\ localStorage' = persist(notes')
    /\ nextId' = nextId + 1
    /\ lastOp' = "create"
    /\ error' = "none"
    /\ UNCHANGED otherTab
    /\ UNCHANGED <<phase, searchQuery, now>>

\* notes.find is undefined for an id that is not there, and reading
\* undefined.title throws after the two state updates were queued; the
\* queued updates are still applied.
handleSelectNote(id) ==
    /\ phase = "running"
    /\ selectedId' = id
    /\ isEditing' = FALSE
    /\ IF findIndex(notes, id) # 0
       THEN /\ editBuffer' = [title |-> notes[findIndex(notes, id)].title,
                              content |-> notes[findIndex(notes, id)].content]
            /\ error' = "none"
       ELSE /\ editBuffer' = editBuffer
            /\ error' = "TypeError"
    /\ UNCHANGED otherTab
    /\ UNCHANGED <<lastOp, phase, localStorage, notes, searchQuery, now,
                   nextId>>

\* savedNote storing the trimmed content
savedNoteTrimmed(n, buf, t) ==
    [n EXCEPT !.title = IF trim(buf.title) # <<>> THEN buf.title
                        ELSE Placeholder,
              !.content = trim(buf.content),
              !.updated = t]

\* savedNote stamping created as well
savedNoteRecreated(n, buf, t) ==
    [n EXCEPT !.title = IF trim(buf.title) # <<>> THEN buf.title
                        ELSE Placeholder,
              !.content = buf.content,
              !.created = t,
              !.updated = t]

\* the object handleSaveNote builds for the matching note
savedNote(n, buf, t) ==
    [n EXCEPT !.title = IF trim(buf.title) # <<>> THEN buf.title
                        ELSE Placeholder,
              !.content = buf.content,
              !.updated = t]

\* prev.map((n) => n.id === selectedId ? {...} : n)
mapSave(prev, id, buf, t) ==
    [i \in 1..Len(prev) |->
        IF prev[i].id = id THEN savedNote(prev[i], buf, t) ELSE prev[i]]

\* handleSaveNote changing the notes without the persisting effect noticing
handleSaveNoteUnpersisted ==
    /\ phase = "running"
    /\ notes' = mapSave(notes, selectedId, editBuffer, now)
    /\ isEditing' = FALSE
    /\ lastOp' = "save"
    /\ error' = "none"
    /\ UNCHANGED otherTab
    /\ UNCHANGED <<phase, localStorage, searchQuery, selectedId, editBuffer,
                   now, nextId>>

handleSaveNote ==
    /\ phase = "running"
    /\ notes' = mapSave(notes, selectedId, editBuffer, now)
    /\ isEditing' = FALSE
    /\ localStorage' = persist(notes')
    /\ lastOp' = "save"
    /\ error' = "none"
    /\ UNCHANGED otherTab
    /\ UNCHANGED <<phase, searchQuery, selectedId, editBuffer, now, nextId>>

\* the note removed with splice(findIndex, 1): index -1 takes the last note
withoutSplice(ns, id) ==
    IF id \in Ids(ns)
    THEN SelectSeq(ns, LAMBDA n : n.id # id)
    ELSE SubSeq(ns, 1, Len(ns) - 1)

\* notes.filter((n) => n.id !== id)
without(ns, id) == SelectSeq(ns, LAMBDA n : n.id # id)

\* reselect taking the note that followed the deleted one
reselectFollowing(idx, newNotes) ==
    IF idx # 0 /\ Len(newNotes) > 0
    THEN newNotes[IF idx < Len(newNotes) THEN idx ELSE Len(newNotes)].id
    ELSE NullId

\* the id handleDeleteNote selects; idx is 1-based, 0 for "not found"
reselect(idx, newNotes) ==
    IF idx # 0 /\ Len(newNotes) > 0
    THEN newNotes[IF idx - 1 > 1 THEN idx - 1 ELSE 1].id
    ELSE NullId

\* handleDeleteNote leaving the selection where it was
handleDeleteNoteKeepsSelection(id) ==
    /\ phase = "running"
    /\ notes' = without(notes, id)
    /\ isEditing' = FALSE
    /\ localStorage' = persist(notes')
    /\ lastOp' = "delete"
    /\ error' = "none"
    /\ UNCHANGED otherTab
    /\ UNCHANGED <<phase, searchQuery, selectedId, editBuffer, now, nextId>>

handleDeleteNote(id) ==
    /\ phase = "running"
    /\ notes' = without(notes, id)
    /\ selectedId' = reselect(findIndex(notes, id), notes')
    /\ isEditing' = FALSE
    /\ localStorage' = persist(notes')
    /\ lastOp' = "delete"
    /\ error' = "none"
    /\ UNCHANGED otherTab
    /\ UNCHANGED <<phase, searchQuery, editBuffer, now, nextId>>

----------------------------------------------------------------------------
(* What the rendered page lets the user do *)

\* "+ New Note" button
ClickNewNote == handleCreateNote

\* Ctrl+N / Cmd+N; the listener is registered again whenever notes changes
KeydownNewNote == handleCreateNote

\* typing in the search box
ChangeSearch ==
    /\ phase = "running"
    /\ \E q \in Queries :
          /\ q # searchQuery
          /\ searchQuery' = q
    /\ error' = "none"
    /\ UNCHANGED otherTab
    /\ UNCHANGED <<lastOp, phase, localStorage, notes, selectedId, isEditing,
                   editBuffer, now, nextId>>

\* clicking an entry of the sidebar list
ClickNote ==
    \E i \in 1..Len(filteredNotes) : handleSelectNote(filteredNotes[i].id)

\* "Edit" button of the read-only view
ClickEdit ==
    /\ phase = "running"
    /\ HasSelectedNote
    /\ ~isEditing
    /\ isEditing' = TRUE
    /\ error' = "none"
    /\ UNCHANGED otherTab
    /\ UNCHANGED <<lastOp, phase, localStorage, notes, searchQuery, selectedId,
                   editBuffer, now, nextId>>

\* "Delete" button of the read-only view, confirmed
ClickDelete ==
    /\ HasSelectedNote
    /\ ~isEditing
    /\ handleDeleteNote(selectedId)

\* typing in the title input of the form
ChangeTitle ==
    /\ phase = "running"
    /\ HasSelectedNote
    /\ isEditing
    /\ \E t \in TitleInputs :
          /\ t # editBuffer.title
          /\ editBuffer' = [editBuffer EXCEPT !.title = t]
    /\ error' = "none"
    /\ UNCHANGED otherTab
    /\ UNCHANGED <<lastOp, phase, localStorage, notes, searchQuery, selectedId,
                   isEditing, now, nextId>>

\* typing in the content textarea of the form
ChangeContent ==
    /\ phase = "running"
    /\ HasSelectedNote
    /\ isEditing
    /\ \E c \in ContentInputs :
          /\ c # editBuffer.content
          /\ editBuffer' = [editBuffer EXCEPT !.content = c]
    /\ error' = "none"
    /\ UNCHANGED otherTab
    /\ UNCHANGED <<lastOp, phase, localStorage, notes, searchQuery, selectedId,
                   isEditing, now, nextId>>

\* submitting the form; both fields are `required`, so the browser does not
\* fire the submit event while one of them is empty
SubmitForm ==
    /\ HasSelectedNote
    /\ isEditing
    /\ editBuffer.title # <<>>
    /\ editBuffer.content # <<>>
    /\ handleSaveNote

\* the Cancel button closing the form and leaving the draft in the buffer
ClickCancelKeepsDraft ==
    /\ phase = "running"
    /\ HasSelectedNote
    /\ isEditing
    /\ isEditing' = FALSE
    /\ UNCHANGED otherTab
    /\ UNCHANGED <<lastOp, error, editBuffer, phase, localStorage, notes,
                   searchQuery, selectedId, now, nextId>>

\* "Cancel" button of the form
ClickCancel ==
    /\ phase = "running"
    /\ HasSelectedNote
    /\ isEditing
    /\ isEditing' = FALSE
    /\ editBuffer' = [title |-> selectedNote.title,
                      content |-> selectedNote.content]
    /\ error' = "none"
    /\ UNCHANGED otherTab
    /\ UNCHANGED <<lastOp, phase, localStorage, notes, searchQuery, selectedId,
                   now, nextId>>

\* a millisecond passes
Tick ==
    /\ now < MaxClock
    /\ now' = now + 1
    /\ UNCHANGED otherTab
    /\ UNCHANGED <<phase, localStorage, notes, searchQuery, selectedId,
                   isEditing, editBuffer, nextId, lastOp, error>>

Next ==
    \/ Mount
    \/ ClickNewNote
    \/ KeydownNewNote
    \/ ChangeSearch
    \/ ClickNote
    \/ ClickEdit
    \/ ClickDelete
    \/ ChangeTitle
    \/ ChangeContent
    \/ SubmitForm
    \/ ClickCancel
    \/ Tick

Spec == Init /\ [][Next]_vars

----------------------------------------------------------------------------
(* The handlers called as operations, with any argument and in any state *)

CallCreateNote == handleCreateNote

CallSelectNote == \E id \in AllIds : handleSelectNote(id)

\* setEditBuffer, as the two onChange handlers of the form call it
CallSetEditBuffer ==
    /\ phase = "running"
    /\ \E t \in TitleInputs, c \in ContentInputs :
          /\ [title |-> t, content |-> c] # editBuffer
          /\ editBuffer' = [title |-> t, content |-> c]
    /\ error' = "none"
    /\ UNCHANGED otherTab
    /\ UNCHANGED <<lastOp, phase, localStorage, notes, searchQuery, selectedId,
                   isEditing, now, nextId>>

CallSaveNote == handleSaveNote

CallDeleteNote == \E id \in AllIds : handleDeleteNote(id)

NextApi ==
    \/ Mount
    \/ CallCreateNote
    \/ CallSelectNote
    \/ CallSetEditBuffer
    \/ CallSaveNote
    \/ CallDeleteNote
    \/ Tick

SpecApi == Init /\ [][NextApi]_vars

----------------------------------------------------------------------------
(* Two tabs of one browser: each runs App on the same localStorage slot.   *)
(* The code registers no "storage" listener, so a tab reads the slot in    *)
(* its first render only.                                                  *)

\* the page of this tab is loaded again: its state is gone, the slot stays
Reload ==
    /\ phase = "running"
    /\ phase' = "boot"
    /\ notes' = <<>>
    /\ searchQuery' = <<>>
    /\ selectedId' = NullId
    /\ isEditing' = FALSE
    /\ editBuffer' = [title |-> <<>>, content |-> <<>>]
    /\ lastOp' = "load"
    /\ error' = "none"
    /\ UNCHANGED <<localStorage, now, nextId, otherTab>>

\* first render of App in the other tab
OtherMount ==
    /\ ~otherTab.open
    /\ ~Truthy(localStorage) \/ Parses(localStorage)
    /\ otherTab' = [open |-> TRUE,
                    notes |-> IF Truthy(localStorage)
                              THEN JSONparse(localStorage) ELSE <<>>]
    /\ localStorage' = persist(otherTab'.notes)
    /\ UNCHANGED <<phase, notes, searchQuery, selectedId, isEditing,
                   editBuffer, now, nextId, lastOp, error>>

\* the other tab is closed or loaded again
OtherUnload ==
    /\ otherTab.open
    /\ otherTab' = [open |-> FALSE, notes |-> <<>>]
    /\ UNCHANGED <<phase, localStorage, notes, searchQuery, selectedId,
                   isEditing, editBuffer, now, nextId, lastOp, error>>

\* handleCreateNote in the other tab, seen by this tab as well through a
\* "storage" listener
OtherCreateNoteSynced ==
    /\ otherTab.open
    /\ nextId <= MaxId
    /\ otherTab' = [otherTab EXCEPT !.notes = withNewNote(newNote, @)]
    /\ localStorage' = persist(otherTab'.notes)
    /\ notes' = otherTab'.notes
    /\ nextId' = nextId + 1
    /\ UNCHANGED <<phase, searchQuery, selectedId, isEditing, editBuffer,
                   now, lastOp, error>>

\* handleCreateNote in the other tab
OtherCreateNote ==
    /\ otherTab.open
    /\ nextId <= MaxId
    /\ otherTab' = [otherTab EXCEPT !.notes = withNewNote(newNote, @)]
    /\ localStorage' = persist(otherTab'.notes)
    /\ nextId' = nextId + 1
    /\ UNCHANGED <<phase, notes, searchQuery, selectedId, isEditing,
                   editBuffer, now, lastOp, error>>

\* handleDeleteNote in the other tab
OtherDeleteNote ==
    /\ otherTab.open
    /\ \E id \in Ids(otherTab.notes) :
          otherTab' = [otherTab EXCEPT !.notes = without(@, id)]
    /\ localStorage' = persist(otherTab'.notes)
    /\ UNCHANGED <<phase, notes, searchQuery, selectedId, isEditing,
                   editBuffer, now, nextId, lastOp, error>>

NextTabs ==
    \/ Mount
    \/ CallCreateNote
    \/ CallSaveNote
    \/ CallDeleteNote
    \/ Reload
    \/ OtherMount
    \/ OtherUnload
    \/ OtherCreateNote
    \/ OtherDeleteNote

SpecTabs == Init /\ [][NextTabs]_vars

----------------------------------------------------------------------------
(* Properties *)

Running == phase = "running"

\* C1: after every create, save and delete, the collection last written to
\* the slot, read back, is the in-memory collection: same notes, same order,
\* same field values.
PersistedEqualsMemory ==
    (Running /\ lastOp \in {"create", "save", "delete"})
        => /\ Parses(localStorage)
           /\ JSONparse(localStorage) = notes

\* a save has changed one of two notes, and the slot holds both
PersistedAfterSave ==
    /\ Running
    /\ lastOp = "save"
    /\ Len(notes) >= 2
    /\ \E i \in 1..Len(notes) : notes[i].updated > notes[i].created
    /\ Len(localStorage.items) = Len(notes)

\* C2: whenever a note is selected and the form is closed, the edit buffer
\* holds the stored title and content of the selected note.
ViewingMirrorsStored ==
    (Running /\ HasSelectedNote /\ ~isEditing)
        => /\ editBuffer.title = selectedNote.title
           /\ editBuffer.content = selectedNote.content

\* the collection without its i-th note
RemoveAt(ns, i) == SubSeq(ns, 1, i - 1) \o SubSeq(ns, i + 1, Len(ns))

\* C3: deleting the selected note, the i-th of the collection (counting from
\* 0), removes it and selects the note at max(0, i-1) of what remains, or
\* nothing when nothing remains; the form is closed afterwards.
DeleteSelectsPrevious ==
    [][\A id \in AllIds :
         (handleDeleteNote(id) /\ id = selectedId /\ findIndex(notes, id) # 0)
            => LET i == findIndex(notes, id) - 1
                   j == IF i - 1 > 0 THEN i - 1 ELSE 0
               IN  /\ notes' = RemoveAt(notes, i + 1)
                   /\ isEditing' = FALSE
                   /\ IF Len(notes') = 0
                      THEN selectedId' = NullId
                      ELSE selectedId' = notes'[j + 1].id]_vars

\* the last of three notes was deleted, and the middle one is selected
DeletedThirdSelectsSecond ==
    /\ Running
    /\ lastOp = "delete"
    /\ Len(notes) = 2
    /\ nextId = 4
    /\ Ids(notes) = {3, 1}
    /\ selectedId = notes[2].id
    /\ ~isEditing


\* C4: a save whose target id is not in the collection fails, reports
\* "not found" to the caller, and leaves the collection unchanged.
SaveAbsentReportsNotFound ==
    [][(handleSaveNote /\ selectedId \notin Ids(notes))
          => /\ error' = "NotFound"
             /\ notes' = notes]_vars

\* C5: selecting an id that is not in the collection leaves no note
\* selected, raises no error, and changes neither the collection nor the
\* slot.
SelectAbsentDeselects ==
    [][\A id \in AllIds :
         (handleSelectNote(id) /\ id \notin Ids(notes))
            => /\ ~HasSelectedNote'
               /\ error' = "none"
               /\ UNCHANGED <<notes, localStorage>>]_vars

\* C6: the first render starts with the empty collection when the slot is
\* absent or holds unparsable content, and with the stored collection
\* otherwise; it raises no error.
StartupRecovers ==
    [][Mount
         => /\ phase' = "running"
            /\ error' = "none"
            /\ notes' = IF Parses(localStorage)
                        THEN JSONparse(localStorage) ELSE <<>>]_vars

\* m is the note n after a save of the buffer buf at time t: the placeholder
\* for a title of nothing but white space, the title as given otherwise, the
\* content as given
SavedAsClaimed(n, m, buf, t) ==
    /\ m.id = n.id
    /\ m.created = n.created
    /\ m.title = IF \A k \in 1..Len(buf.title) : buf.title[k] \in WhiteSpace
                 THEN Placeholder ELSE buf.title
    /\ m.content = buf.content
    /\ m.updated = t

\* C7: a save of an existing note stores the placeholder for an
\* empty or whitespace-only title and the title as given otherwise, stores
\* the content as given, and leaves updated > created.
SaveLeavesUpdatedAfterCreated ==
    [][(handleSaveNote /\ HasSelectedNote)
          => LET i == findIndex(notes, selectedId)
             IN  /\ SavedAsClaimed(notes[i], notes'[i], editBuffer, now)
                 /\ notes'[i].updated > notes'[i].created]_vars

\* C7, with the timestamps as the code leaves them: a save of an existing
\* note stores the placeholder for an empty or whitespace-only title and the
\* title as given otherwise, stores the content as given, and sets updated to
\* the time of the save, which is >= created (equal when the note was
\* created in the same millisecond).
SaveStoresBuffer ==
    [][(handleSaveNote /\ HasSelectedNote)
          => LET i == findIndex(notes, selectedId)
             IN  /\ SavedAsClaimed(notes[i], notes'[i], editBuffer, now)
                 /\ notes'[i].updated >= notes'[i].created]_vars

\* a whitespace-only title was saved as the placeholder, next to a content
\* with a leading blank, in the millisecond the note was created
SavedBlankTitle ==
    /\ Running
    /\ lastOp = "save"
    /\ HasSelectedNote
    /\ editBuffer = [title |-> <<" ">>, content |-> <<" ", "b">>]
    /\ selectedNote.title = Placeholder
    /\ selectedNote.content = <<" ", "b">>
    /\ selectedNote.updated = selectedNote.created


\* the positions of note n in the list l
Positions(l, n) == {j \in 1..Len(l) : l[j] = n}

\* list("") holds every note once, by updated descending, notes with equal
\* updated in the order of the collection
ListsAllByUpdated ==
    LET l == list(<<>>)
    IN  /\ Len(l) = Len(notes)
        /\ \A i \in 1..Len(notes) : Cardinality(Positions(l, notes[i])) = 1
        /\ \A j, k \in 1..Len(l) : j < k => l[j].updated >= l[k].updated
        /\ \A i, k \in 1..Len(notes) :
              (i < k /\ notes[i].updated = notes[k].updated)
                 => \A a \in Positions(l, notes[i]), b \in Positions(l, notes[k]) :
                       a < b

\* C8: list("") returns every note exactly once, ordered by updated
\* descending, notes with equal updated in their order in the collection;
\* showing another list changes neither the collection nor the slot.
ListAllSortedStable ==
    /\ [](Running => ListsAllByUpdated)
    /\ [][ChangeSearch => UNCHANGED <<notes, localStorage>>]_vars

\* three notes, two of them with equal updated, listed in another order than
\* the collection holds them
ListReordersThree ==
    /\ Running
    /\ Len(notes) = 3
    /\ notes[1].updated = notes[2].updated
    /\ notes[3].updated > notes[1].updated
    /\ searchQuery = <<>>
    /\ filteredNotes = <<notes[3], notes[1], notes[2]>>

CasePairs ==
    {{"a", "A"}, {"b", "B"}, {"e", "E"}, {"n", "N"}, {"o", "O"},
     {"t", "T"}, {"u", "U"}}

SameLetter(c, d) == c = d \/ {c, d} \in CasePairs

ContainsIgnoringCase(s, q) ==
    \E i \in 0..(Len(s) - Len(q)) :
        \A k \in 1..Len(q) : SameLetter(s[i + k], q[k])

ListQueries == Queries \cup {<<"a">>, <<"B">>, <<"n", "O", "T", "E">>}

\* C9: for every query q, list(q) holds exactly the notes whose title or
\* content contains q ignoring case, each once.
ListIsExactlyMatches ==
    Running =>
        \A q \in ListQueries :
            LET l == list(q)
                matching == {i \in 1..Len(notes) :
                                \/ ContainsIgnoringCase(notes[i].title, q)
                                \/ ContainsIgnoringCase(notes[i].content, q)}
            IN  /\ {l[j] : j \in 1..Len(l)} = {notes[i] : i \in matching}
                /\ Len(l) = Cardinality(matching)

\* the query "nO" lists the one note of three that has "No" in its title
ListFindsOtherCase ==
    /\ Running
    /\ Len(notes) = 3
    /\ searchQuery = <<"n", "O">>
    /\ Len(filteredNotes) = 1
    /\ filteredNotes[1].title = Placeholder

\* C10: create adds one note with a fresh id, created = updated = now, the
\* placeholder title and empty content at the head of the collection; the
\* notes that were there follow it unchanged and in their order, and looking
\* the new id up finds the new note.
CreatePrepends ==
    [][handleCreateNote
         => LET n == notes'[1]
            IN  /\ Len(notes') = Len(notes) + 1
                /\ n.id \notin Ids(notes)
                /\ n.created = now /\ n.updated = now
                /\ n.title = Placeholder
                /\ n.content = <<>>
                /\ Tail(notes') = notes
                /\ findIndex(notes', n.id) = 1
                /\ notes'[findIndex(notes', selectedId')] = n]_vars

\* a second note was created in front of a stored one
CreatedSecondNote ==
    /\ Running
    /\ lastOp = "create"
    /\ Len(notes) = 2
    /\ notes[1] = Note(2, Placeholder, <<>>, now, now)
    /\ notes[2].id = 1
    /\ selectedId = 2


\* C11: deleting a note that is there removes it, so that looking its id up
\* finds nothing, and leaves the other notes unchanged and in their order;
\* deleting an id that is not there (a second delete of the same id) removes
\* nothing, raises no error and leaves the collection unchanged.
DeleteRemovesOnlyThat ==
    [][\A id \in AllIds :
         handleDeleteNote(id)
            => /\ findIndex(notes', id) = 0
               /\ error' = "none"
               /\ notes' = IF findIndex(notes, id) # 0
                           THEN RemoveAt(notes, findIndex(notes, id))
                           ELSE notes
               /\ JSONparse(localStorage') = notes']_vars

\* an id that is not there was deleted from the empty collection, before
\* any note was created
DeletedAbsentId ==
    /\ Running
    /\ lastOp = "delete"
    /\ error = "none"
    /\ nextId = 1
    /\ notes = <<>>
    /\ localStorage = JSONstringify(<<>>)


\* the titles and contents of the notes, by id
Texts(ns) == {<<ns[i].id, ns[i].title, ns[i].content>> : i \in 1..Len(ns)}

\* C12: whatever is selected and whether the form is open or not, creating
\* a note leaves the form open on the new note with the placeholder title
\* and empty content in the buffer, and changes the stored title and content
\* of no note that was there.
CreateOpensFormOnNewNote ==
    [][handleCreateNote
         => /\ isEditing'
            /\ selectedId' \notin Ids(notes)
            /\ HasSelectedNote'
            /\ selectedId' = notes'[1].id
            /\ editBuffer' = [title |-> Placeholder, content |-> <<>>]
            /\ Texts(notes) \subseteq Texts(notes')]_vars

\* the form was open with a draft on the first note when the second note was
\* created: the draft is gone from the buffer and was not stored
CreatedOverDraft ==
    /\ Running
    /\ lastOp = "create"
    /\ isEditing
    /\ Len(notes) = 2
    /\ selectedId = notes[1].id
    /\ editBuffer = [title |-> Placeholder, content |-> <<>>]
    /\ notes[2].title = Placeholder
    /\ notes[2].content = <<>>
    /\ notes[2].created < notes[1].created

\* C13: Cancel closes the form on the same note, puts the stored title and
\* content of that note back into the buffer, and leaves the collection and
\* the slot unchanged.
CancelDiscardsDraft ==
    [][ClickCancel
         => /\ isEditing /\ ~isEditing'
            /\ selectedId' = selectedId
            /\ HasSelectedNote'
            /\ editBuffer' = [title |-> selectedNote.title,
                              content |-> selectedNote.content]
            /\ UNCHANGED <<notes, localStorage>>]_vars

\* the form of a note just created is closed again and nothing was stored:
\* the note keeps its empty content, which the form does not submit
ClosedFormOfNewNote ==
    /\ Running
    /\ lastOp = "create"
    /\ ~isEditing
    /\ selectedId = notes[1].id
    /\ notes[1].content = <<>>
    /\ editBuffer = [title |-> Placeholder, content |-> <<>>]
    /\ localStorage = JSONstringify(notes)


\* C14: every note of the collection has created <= updated.
CreatedBeforeUpdated ==
    Running => \A i \in 1..Len(notes) : notes[i].created <= notes[i].updated

\* after a save, next to a note saved later than it was created, a note
\* created in this session that still has created = updated
SavedNextToNewNote ==
    /\ Running
    /\ lastOp = "save"
    /\ Len(notes) = 2
    /\ notes[1].created = 2 /\ notes[1].updated = 2
    /\ notes[2].created = 1 /\ notes[2].updated = 2

\* C15: a note saved at a time after the updated time of every other note is
\* the first of list("") afterwards.
SavedLatestListedFirst ==
    [][(/\ handleSaveNote
        /\ HasSelectedNote
        /\ \A i \in 1..Len(notes) :
              notes[i].id # selectedId => notes[i].updated < now)
          => sort(filter(notes', <<>>))[1].id = selectedId]_vars

\* of two notes created in this session the first one, the last of the
\* collection, was saved after the other was created, and is listed first
OlderNoteSavedLast ==
    /\ Running
    /\ lastOp = "save"
    /\ Len(notes) = 2
    /\ nextId = 3
    /\ notes[2].updated > notes[1].updated
    /\ list(<<>>) = <<notes[2], notes[1]>>


\* the fields of the notes of ns that a save does not touch, by id
Identities(ns) == {<<ns[i].id, ns[i].created>> : i \in 1..Len(ns)}

\* C17: a save changes the title, content and updated of the selected note
\* only: its id and created, every other note, and the length and order of
\* the collection stay; no other operation changes a field of a note that is
\* in the collection before and after it.
OnlySaveChangesNotes ==
    [][/\ handleSaveNote
          => /\ Len(notes') = Len(notes)
             /\ \A i \in 1..Len(notes) :
                   /\ notes'[i].id = notes[i].id
                   /\ notes'[i].created = notes[i].created
                   /\ notes[i].id # selectedId => notes'[i] = notes[i]
       /\ lastOp' # "save"
          => \A i \in 1..Len(notes), j \in 1..Len(notes') :
                notes'[j].id = notes[i].id => notes'[j] = notes[i]]_vars

\* the second of three stored notes was saved with another title and content
SavedMiddleNote ==
    /\ Running
    /\ lastOp = "save"
    /\ Len(notes) = 3
    /\ Identities(notes) = {<<3, 0>>, <<1, 0>>, <<2, 0>>}
    /\ notes[2] = Note(1, Placeholder, <<" ", "b">>, 0, 2)
    /\ notes[1].updated = 0
    /\ notes[3].updated = 0

\* C18: the selected id is none or the id of a note of the collection, and
\* the form is open only on a note of the collection.
SelectionIsANote ==
    Running => /\ selectedId = NullId \/ selectedId \in Ids(notes)
               /\ isEditing => HasSelectedNote

\* the selected note, the only one, was deleted: nothing is selected
DeletedOnlyNote ==
    /\ Running
    /\ lastOp = "delete"
    /\ nextId = 2
    /\ notes = <<>>
    /\ selectedId = NullId
    /\ ~isEditing

\* C19: the ids of the notes of the collection are pairwise distinct.
IdsAreDistinct ==
    Running => \A i, j \in 1..Len(notes) : notes[i].id = notes[j].id => i = j

\* a note was created after another one had been created and deleted
CreatedAfterDelete ==
    /\ Running
    /\ lastOp = "create"
    /\ nextId = 3
    /\ Len(notes) = 1
    /\ notes[1].id = 2


\* a write of the collection by this tab
WriteHere ==
    \/ handleCreateNote
    \/ handleSaveNote
    \/ \E id \in AllIds : handleDeleteNote(id)

\* a write of the collection by the other tab
WriteThere == OtherCreateNote \/ OtherDeleteNote

\* C16: with two tabs on the slot, a write in one tab leaves exactly that
\* tab's collection in the slot, whatever the other tab wrote before, and
\* the collection of the other tab does not change; a tab's collection
\* changes only by its own writes and by its own (re)load.
LastWriterWins ==
    [][/\ WriteHere => /\ JSONparse(localStorage') = notes'
                       /\ otherTab' = otherTab
       /\ WriteThere => /\ JSONparse(localStorage') = otherTab'.notes
                        /\ notes' = notes
       /\ notes' # notes => WriteHere \/ Mount \/ Reload
       /\ otherTab'.notes # otherTab.notes
             => WriteThere \/ OtherMount \/ OtherUnload]_vars

\* both tabs loaded the empty slot, the other tab created note 1, then this
\* tab created note 2: the slot holds note 2 only, the other tab note 1 only
OtherTabsNoteDropped ==
    /\ Running
    /\ otherTab.open
    /\ lastOp = "create"
    /\ Ids(notes) = {2}
    /\ Ids(otherTab.notes) = {1}
    /\ JSONparse(localStorage) = notes

====
